---------------------------- MODULE Spec2Model ----------------------------
(***************************************************************************)
(* A model of FontSnip: the font matcher (matching/font_matcher.py), the   *)
(* feature extractor (matching/feature_extractor.py), the database builder *)
(* (scripts/build_font_database.py) and the application state machine      *)
(* (app_logic/state_machine.py).                                           *)
(*                                                                         *)
(* Numbers.  Feature values are exact: a vector of the database is a       *)
(* sequence of integers, the mean of a query is kept in units of 1/Scale   *)
(* (Scale is a common multiple of every possible query length, so the      *)
(* division of the mean is exact), and a cosine similarity is the exact    *)
(* real sgn * sqrt(num / den), kept as a reduced record.                   *)
(* Font identifiers are integers: the rank of the file name in the         *)
(* lexicographic order of strings.                                         *)
(***************************************************************************)
EXTENDS Integers, Sequences, FiniteSets, TLC

VARIABLES
    \* ---- FontMatcher (matching/font_matcher.py)
    m_phase,          \* "new" before __init__, "ready" after it
    db_file,          \* what the file at database_path holds
    font_database,    \* self.font_database: None or the loaded dict
    m_call,           \* the arguments of the last find_best_matches call
    m_ret,            \* what that call did: returned a list, or raised
    calls,            \* per calling thread: the frame of its find_best_matches
    \* ---- the application (main.py, app_logic/state_machine.py)
    a_phase,          \* "boot" while main() builds the StateMachine,
                      \* "running" in the event loop, "exited" after sys.exit
    state,            \* StateMachine._state
    sm_database,      \* StateMachine._font_database: "None", "empty", "loaded"
    worker_thread,    \* StateMachine._worker_thread: "None", "running", "finished"
    worker_pc,        \* ProcessingWorker.run: "none", "started", "done"
    worker_run,       \* the last run of a worker: what its calls did and the
                      \* signals it emitted
    threads,          \* the QThreads started and not yet ended
    last_press,       \* what the last hotkey press did: "none", "started",
                      \* "refused", "ignored"
    main_queue,       \* signals of the worker queued for the main thread
    last_error,       \* the last message of error_occurred
    clipboard,        \* "old", or "top" once the best match was copied
    results_visible,  \* the results window shows
    \* ---- CaptureOverlay (ui/capture_overlay.py)
    overlay_visible,
    is_selecting,
    begin,
    end,
    emitted,          \* region_selected emissions since the last left press
    \* ---- the two extract_features, applied to one raster
    f_raster,         \* the raster handed to the extractors
    f_online,         \* what feature_extractor.extract_features did with it
    f_offline,        \* what build_font_database.extract_features did
    \* ---- main() of scripts/build_font_database.py
    b_pc,             \* "font": at the head of the font loop, "char": in the
                      \* character loop, "done": after the loop and the save
    b_fonts,          \* the fonts still to process (font_paths)
    b_readable,       \* whether ImageFont.truetype opens the current font
    b_char,           \* the index in CHARSET of the next character
    char_features_list,
    b_database,       \* font_database of main(): a dict, as its items
    b_history,        \* history: every font processed so far, with the
                      \* char_features_list it ended with
    out_file,         \* OUTPUT_FILE: "absent", or the pickled dict
    \* ---- the OCR reader (processing/ocr_handler.py)
    ocr_reader,       \* _OCR_READER: 0 for None, or the number of the Reader
    ocr_built,        \* the Readers easyocr.Reader has constructed
    ocr_calls         \* per thread: where its perform_ocr call is, the
                      \* reader it got, what it returned

mvars == <<m_phase, db_file, font_database, m_call, m_ret, calls>>

smvars == <<a_phase, state, sm_database, worker_thread, worker_pc, worker_run,
            threads, last_press, main_queue, last_error, clipboard,
            results_visible>>

ovars == <<overlay_visible, is_selecting, begin, end, emitted>>

fvars == <<f_raster, f_online, f_offline>>

bvars == <<b_pc, b_fonts, b_readable, b_char, char_features_list, b_database,
           b_history, out_file>>

pvars == <<ocr_reader, ocr_built, ocr_calls>>

evars == <<fvars, bvars, pvars>>

vars == <<mvars, smvars, ovars, evars>>

-----------------------------------------------------------------------------
(* Bounds of the model *)

\* at most this many fonts in a database file
MaxFonts == 2
\* at most this many feature vectors in one query
MaxQuery == 2

\* the dimensionalities a vector may have (the code compares shapes only)
Dims == {1, 2}
\* the values a component may take
Vals == {0, 1}
\* the top_n arguments tried; a Python int may be negative
TopNs == {-1, 0, 1, 2, 3}

-----------------------------------------------------------------------------
(* Arithmetic helpers *)

Abs(x) == IF x < 0 THEN -x ELSE x

Sign(x) == IF x < 0 THEN -1 ELSE IF x > 0 THEN 1 ELSE 0

Min(a, b) == IF a < b THEN a ELSE b

Max(a, b) == IF a > b THEN a ELSE b

RECURSIVE Gcd(_, _)
Gcd(a, b) == IF b = 0 THEN a ELSE Gcd(b, a % b)

RECURSIVE LcmUpTo(_)
LcmUpTo(n) == IF n <= 1 THEN 1
              ELSE LET l == LcmUpTo(n - 1) IN (l * n) \div Gcd(l, n)

\* the unit of a query mean: 1/Scale
Scale == LcmUpTo(MaxQuery)

RECURSIVE SumSeq(_)
SumSeq(s) == IF s = <<>> THEN 0 ELSE Head(s) + SumSeq(Tail(s))

\* all sequences over S of length 0..n
SeqUpTo(S, n) == UNION {[1..k -> S] : k \in 0..n}

\* all vectors of a dimensionality in Dims
Vectors == UNION {[1..d -> Vals] : d \in Dims}

\* the vectors a stored entry may hold: those, and one that is a multiple of
\* another
DbVectors == Vectors \cup {<<2>>}

-----------------------------------------------------------------------------
(* FontMatcher._load_database  (font_matcher.py 45-73) *)

\* Python's None for self.font_database
NoneDB == [isNone |-> TRUE, entries |-> <<>>]

DictDB(entries) == [isNone |-> FALSE, entries |-> entries]

\* The files a database path may name.  A dict keeps its insertion order
\* (pickle keeps it too), so a dict is the sequence of its items; the keys
\* of a dict are distinct.
DictItems == {s \in SeqUpTo([name : 1..MaxFonts, vec : DbVectors], MaxFonts) :
                 \A i, j \in 1..Len(s) : i # j => s[i].name # s[j].name}

DbFiles == {[kind |-> k, entries |-> <<>>] : k \in {"missing", "corrupt", "notdict"}}
           \cup {[kind |-> "dict", entries |-> e] : e \in DictItems}

\* "not isinstance(database, dict) or not database" and the except clauses
\* all return None; only a non-empty dict is returned
LoadDatabase(file) ==
    IF file.kind = "dict" /\ file.entries # <<>>
    THEN DictDB(file.entries)
    ELSE NoneDB

\* "not self.font_database": None or an empty dict
Falsy(db) == db.isNone \/ db.entries = <<>>

-----------------------------------------------------------------------------
(* FontMatcher._cosine_similarity  (font_matcher.py 75-98) *)

Dot(a, b) == SumSeq([i \in 1..Len(a) |-> a[i] * b[i]])

\* the square of np.linalg.norm
NormSq(a) == Dot(a, a)

\* the real number sgn * sqrt(num / den), reduced
Score(sgn, num, den) ==
    IF sgn = 0 \/ num = 0 THEN [sgn |-> 0, num |-> 0, den |-> 1]
    ELSE LET g == Gcd(num, den)
         IN  [sgn |-> sgn, num |-> num \div g, den |-> den \div g]

ZeroScore == Score(0, 0, 1)

OneScore == Score(1, 1, 1)

\* a < b on scores
ScoreLess(a, b) ==
    IF a.sgn # b.sgn THEN a.sgn < b.sgn
    ELSE IF a.sgn = 0 THEN FALSE
    ELSE IF a.sgn > 0 THEN a.num * b.den < b.num * a.den
    ELSE a.num * b.den > b.num * a.den

\* NaN, what NumPy's 0.0 / 0.0 gives
NanScore == [sgn |-> 0, num |-> 0, den |-> 0]

\* (mutant) the similarity without the guard of lines 95-96
CosineSimilarityUnguarded(vec1, vec2) ==
    LET dot_product == Dot(vec1, vec2)
        n1 == NormSq(vec1)
        n2 == NormSq(vec2)
    IN  IF n1 = 0 \/ n2 = 0 THEN NanScore
        ELSE Score(Sign(dot_product), dot_product * dot_product, n1 * n2)

\* (mutant) the similarity without the division by the norms
DotSimilarity(vec1, vec2) ==
    LET dot_product == Dot(vec1, vec2)
    IN  Score(Sign(dot_product), dot_product * dot_product, 1)

\* dot / (norm1 * norm2), and 0.0 when a norm is 0
CosineSimilarity(vec1, vec2) ==
    LET dot_product == Dot(vec1, vec2)
        n1 == NormSq(vec1)
        n2 == NormSq(vec2)
    IN  IF n1 = 0 \/ n2 = 0 THEN ZeroScore
        ELSE Score(Sign(dot_product), dot_product * dot_product, n1 * n2)

-----------------------------------------------------------------------------
(* FontMatcher.find_best_matches  (font_matcher.py 100-156) *)

Returned(v) == [raised |-> FALSE, value |-> v]

Raised == [raised |-> TRUE, value |-> <<>>]

\* np.mean(snip_feature_vectors, axis=0) raises ValueError when the vectors
\* do not all have one shape
Ragged(q) == \E i, j \in 1..Len(q) : Len(q[i]) # Len(q[j])

\* the component-wise mean, in units of 1/Scale
MeanVector(q) ==
    [k \in 1..Len(q[1]) |->
        (SumSeq([i \in 1..Len(q) |-> q[i][k]]) * Scale) \div Len(q)]

\* the loop of lines 134-146: every entry of the target's shape is scored,
\* in the iteration order of the dict; the others are skipped
\* (mutant) the loop as it would be with "return []" in place of "continue":
\* the first entry of another shape ends the scoring of all entries
ScoreEntriesAbort(target, entries) ==
    IF \E i \in 1..Len(entries) : Len(entries[i].vec) # Len(target) THEN <<>>
    ELSE [i \in 1..Len(entries) |->
             [name |-> entries[i].name,
              score |-> CosineSimilarity(target, entries[i].vec)]]

RECURSIVE ScoreEntries(_, _)
ScoreEntries(target, entries) ==
    IF entries = <<>> THEN <<>>
    ELSE (IF Len(target) # Len(Head(entries).vec) THEN <<>>
          ELSE <<[name |-> Head(entries).name,
                  score |-> CosineSimilarity(target, Head(entries).vec)]>>)
         \o ScoreEntries(target, Tail(entries))

\* x placed after every element whose score is not below its own
RECURSIVE InsertDesc(_, _)
InsertDesc(x, sorted) ==
    IF sorted = <<>> THEN <<x>>
    ELSE IF ScoreLess(Head(sorted).score, x.score) THEN <<x>> \o sorted
    ELSE <<Head(sorted)>> \o InsertDesc(x, Tail(sorted))

\* list.sort(key=score, reverse=True): stable, so entries of equal score
\* keep the order they had in the list
RECURSIVE SortDescFrom(_, _)
SortDescFrom(done, todo) ==
    IF todo = <<>> THEN done
    ELSE SortDescFrom(InsertDesc(Head(todo), done), Tail(todo))

\* (mutant) the sort left out
SortDescNone(scores) == scores

SortDesc(scores) == SortDescFrom(<<>>, scores)

\* (mutant) the slice taken from the other end of the list
SliceFromEnd(s, n) ==
    LET k == IF n >= 0 THEN Min(n, Len(s)) ELSE Max(Len(s) + n, 0)
    IN  SubSeq(s, Len(s) - k + 1, Len(s))

\* Python's s[:n]: a negative n counts from the end
SliceTo(s, n) ==
    LET k == IF n >= 0 THEN Min(n, Len(s)) ELSE Max(Len(s) + n, 0)
    IN  SubSeq(s, 1, k)

\* (mutant) find_best_matches without the guard of lines 117-119: None has
\* no items(), so the loop raises AttributeError
FindBestMatchesUnguarded(db, q, top_n) ==
    IF db.isNone THEN Raised
    ELSE IF q = <<>> THEN Returned(<<>>)
    ELSE IF Ragged(q) THEN Returned(<<>>)
    ELSE LET scores == ScoreEntries(MeanVector(q), db.entries)
         IN  IF scores = <<>> THEN Returned(<<>>)
             ELSE Returned(SliceTo(SortDesc(scores), top_n))

FindBestMatches(db, q, top_n) ==
    IF Falsy(db) THEN Returned(<<>>)
    ELSE IF q = <<>> THEN Returned(<<>>)
    ELSE IF Ragged(q) THEN Returned(<<>>)
    ELSE LET scores == ScoreEntries(MeanVector(q), db.entries)
         IN  IF scores = <<>> THEN Returned(<<>>)
             ELSE Returned(SliceTo(SortDesc(scores), top_n))

-----------------------------------------------------------------------------
(* The matcher as a state machine: __init__ once, then calls *)

NoCall == [made |-> FALSE, query |-> <<>>, top_n |-> 0]

Queries == SeqUpTo(Vectors, MaxQuery)

\* the threads that call find_best_matches
Callers == {1, 2}

\* a thread that has not called
NoFrame == [pc |-> "idle", query |-> <<>>, top_n |-> 0, target |-> <<>>,
            idx |-> 1, scores |-> <<>>, ret |-> Returned(<<>>)]

\* no FontMatcher built yet
MatcherIdle ==
    /\ m_phase = "new"
    /\ db_file = [kind |-> "missing", entries |-> <<>>]
    /\ font_database = NoneDB
    /\ m_call = NoCall
    /\ m_ret = Returned(<<>>)
    /\ calls = [t \in Callers |-> NoFrame]

\* FontMatcher.__init__ (font_matcher.py 31-43)
MatcherInit(file) ==
    /\ m_phase = "new"
    /\ m_phase' = "ready"
    /\ db_file' = file
    /\ font_database' = LoadDatabase(file)
    /\ UNCHANGED <<m_call, m_ret, calls, smvars, ovars, evars>>

\* one call of find_best_matches; it reads self.font_database only
MatcherCall(q, n) ==
    /\ m_phase = "ready"
    /\ ~m_call.made
    /\ m_call' = [made |-> TRUE, query |-> q, top_n |-> n]
    /\ m_ret' = FindBestMatches(font_database, q, n)
    /\ UNCHANGED <<m_phase, db_file, font_database, calls, smvars, ovars,
                   evars>>

\* find_best_matches called from several threads on one FontMatcher: each
\* call has its own frame (target_vector, scores, the position of the
\* iterator over the dict) and shares self.font_database
CallFiles ==
    {[kind |-> "missing", entries |-> <<>>],
     [kind |-> "dict",
      entries |-> <<[name |-> 1, vec |-> <<1, 0>>],
                    [name |-> 2, vec |-> <<1, 1>>]>>],
     [kind |-> "dict",
      entries |-> <<[name |-> 2, vec |-> <<1>>],
                    [name |-> 1, vec |-> <<0, 1>>]>>]}

CallQueries ==
    {<<>>, <<<<1>>>>, <<<<0, 1>>>>, <<<<1, 0>>, <<1, 1>>>>, <<<<1>>, <<1, 0>>>>}

CallTopNs == {1, 3}

\* lines 117-130: the guards and the mean; the frame after them
CallBegin(t, q, n) ==
    /\ m_phase = "ready"
    /\ calls[t].pc \in {"idle", "done"}
    /\ calls' = [calls EXCEPT ![t] =
           IF Falsy(font_database) \/ q = <<>> \/ Ragged(q)
           THEN [pc |-> "done", query |-> q, top_n |-> n, target |-> <<>>,
                 idx |-> 1, scores |-> <<>>, ret |-> Returned(<<>>)]
           ELSE [pc |-> "loop", query |-> q, top_n |-> n,
                 target |-> MeanVector(q), idx |-> 1, scores |-> <<>>,
                 ret |-> Returned(<<>>)]]
    /\ UNCHANGED <<m_phase, db_file, font_database, m_call, m_ret, smvars,
                   ovars, evars>>

\* (mutant) the loop taking each entry out of the dict as it scores it
CallScoreConsuming(t) ==
    /\ calls[t].pc = "loop"
    /\ font_database.entries # <<>>
    /\ calls[t].idx <= Len(font_database.entries)
    /\ calls' = [calls EXCEPT ![t].scores =
           @ \o ScoreEntries(calls[t].target, <<Head(font_database.entries)>>)]
    /\ font_database' =
           [font_database EXCEPT !.entries = Tail(font_database.entries)]
    /\ UNCHANGED <<m_phase, db_file, m_call, m_ret, smvars, ovars, evars>>

\* lines 134-146: one iteration over self.font_database.items()
CallScore(t) ==
    /\ calls[t].pc = "loop"
    /\ calls[t].idx <= Len(font_database.entries)
    /\ calls' = [calls EXCEPT
           ![t].scores = @ \o ScoreEntries(calls[t].target,
                               <<font_database.entries[calls[t].idx]>>),
           ![t].idx = @ + 1]
    /\ UNCHANGED <<m_phase, db_file, font_database, m_call, m_ret, smvars,
                   ovars, evars>>

\* lines 148-156: after the loop
CallReturn(t) ==
    /\ calls[t].pc = "loop"
    /\ calls[t].idx > Len(font_database.entries)
    /\ calls' = [calls EXCEPT
           ![t].pc = "done",
           ![t].ret = IF calls[t].scores = <<>> THEN Returned(<<>>)
                      ELSE Returned(SliceTo(SortDesc(calls[t].scores),
                                            calls[t].top_n))]
    /\ UNCHANGED <<m_phase, db_file, font_database, m_call, m_ret, smvars,
                   ovars, evars>>

-----------------------------------------------------------------------------
(* Rasters and feature values.                                             *)
(* A raster is a NumPy array argument: None, an array that is not          *)
(* two-dimensional, or an h x w image given by the set px of its non-zero  *)
(* pixels <<row, column>>, rows 0..h-1 and columns 0..w-1.                 *)
(* A feature value is the exact real (a + b * sqrt(2)) / (den * sqrt(rad)).*)

Image(h, w, px) == [kind |-> "image", h |-> h, w |-> w, px |-> px]

NullRaster == [kind |-> "null", h |-> 0, w |-> 0, px |-> {}]

Not2dRaster == [kind |-> "not2d", h |-> 0, w |-> 0, px |-> {}]

Cells(h, w) == (0..(h - 1)) \X (0..(w - 1))

\* the largest k with k * k <= n
RECURSIVE ISqrtFrom(_, _)
ISqrtFrom(n, k) == IF (k + 1) * (k + 1) > n THEN k ELSE ISqrtFrom(n, k + 1)

ISqrt(n) == ISqrtFrom(n, 0)

Gcd3(a, b, c) == Gcd(Gcd(Abs(a), Abs(b)), Abs(c))

\* (a + b * sqrt(2)) / (den * sqrt(rad)), den > 0 and rad > 0, reduced
Value(a, b, den, rad) ==
    IF a = 0 /\ b = 0 THEN [a |-> 0, b |-> 0, den |-> 1, rad |-> 1]
    ELSE LET q == ISqrt(rad)
             sq == q * q = rad
             d == IF sq THEN den * q ELSE den
             r == IF sq THEN 1 ELSE rad
             g == Gcd3(a, b, d)
         IN  [a |-> a \div g, b |-> b \div g, den |-> d \div g, rad |-> r]

Rat(n, d) == Value(n, 0, d, 1)

ZeroValue == Rat(0, 1)

OneValue == Rat(1, 1)

\* the sum of two values over the same radical
AddValue(u, v) ==
    Value(u.a * v.den + v.a * u.den, u.b * v.den + v.b * u.den,
          u.den * v.den, u.rad)

\* a value divided by a positive integer
DivValue(u, n) == Value(u.a, u.b, u.den * n, u.rad)

\* np.zeros(n)
Zeros(n) == [i \in 1..n |-> ZeroValue]

-----------------------------------------------------------------------------
(* cv2.findContours(image, RETR_TREE, CHAIN_APPROX_SIMPLE): border         *)
(* following (Suzuki and Abe).  The non-zero pixels are 8-connected, the   *)
(* zero pixels 4-connected; every 8-connected component has one outer      *)
(* border, every hole (a 4-connected component of zero pixels that does    *)
(* not reach the frame) one hole border.                                   *)

\* the eight neighbours, clockwise on the screen from East
Dir8 == <<<<0, 1>>, <<1, 1>>, <<1, 0>>, <<1, -1>>,
          <<0, -1>>, <<-1, -1>>, <<-1, 0>>, <<-1, 1>>>>

Step(p, d) == <<p[1] + Dir8[d + 1][1], p[2] + Dir8[d + 1][2]>>

Adjacent4(p, q) == Abs(p[1] - q[1]) + Abs(p[2] - q[2]) = 1

Adjacent8(p, q) == p # q /\ Abs(p[1] - q[1]) <= 1 /\ Abs(p[2] - q[2]) <= 1

Adjacent(conn, p, q) == IF conn = 4 THEN Adjacent4(p, q) ELSE Adjacent8(p, q)

\* the pixels of A connected to a pixel of S
RECURSIVE Closure(_, _, _)
Closure(S, A, conn) ==
    LET T == S \cup {q \in A : \E p \in S : Adjacent(conn, p, q)}
    IN  IF T = S THEN S ELSE Closure(T, A, conn)

\* p comes before q in the raster scan
ScanBefore(p, q) == p[1] < q[1] \/ (p[1] = q[1] /\ p[2] < q[2])

\* the pixel of a non-empty set the raster scan meets first
First(A) == CHOOSE p \in A : \A q \in A : q = p \/ ScanBefore(p, q)

\* the connected components of A, in the order the scan meets them
RECURSIVE Components(_, _)
Components(A, conn) ==
    IF A = {} THEN <<>>
    ELSE LET c == Closure({First(A)}, A, conn)
         IN  <<c>> \o Components(A \ c, conn)

\* the zero pixels of the image with its one-pixel frame of zeros
Background(img) ==
    {p \in (-1..img.h) \X (-1..img.w) : p \notin img.px}

\* the zero pixels connected to the frame
Outside(img) == Closure({<<-1, -1>>}, Background(img), 4)

\* the holes of the image
Holes(img) == Components(Background(img) \ Outside(img), 4)

\* the 8-connected components of the non-zero pixels
Blobs(img) == Components(img.px, 8)

\* the first neighbour of p that is a non-zero pixel, looking from direction
\* d0 on, clockwise (turn = 1) or counterclockwise (turn = -1); 8 when p has
\* no non-zero neighbour
RECURSIVE Look(_, _, _, _, _)
Look(px, p, d0, turn, tried) ==
    IF tried = 8 THEN 8
    ELSE IF Step(p, d0) \in px THEN d0
    ELSE Look(px, p, (d0 + turn + 8) % 8, turn, tried + 1)

\* the border from p3 on, where back is the direction of the pixel visited
\* before p3; start and p1 are the first two pixels of the border
RECURSIVE Follow(_, _, _, _, _)
Follow(px, start, p1, p3, back) ==
    LET d4 == Look(px, p3, (back + 7) % 8, -1, 0)
        p4 == Step(p3, d4)
    IN  IF p4 = start /\ p3 = p1 THEN <<p3>>
        ELSE <<p3>> \o Follow(px, start, p1, p4, (d4 + 4) % 8)

\* the outer border of the component whose first pixel in the scan is
\* start: the sequence of its border pixels
OuterBorder(px, start) ==
    LET d1 == Look(px, start, 4, 1, 0)
    IN  IF d1 = 8 THEN <<start>>
        ELSE Follow(px, start, Step(start, d1), start, d1)

\* twice the signed area of the polygon of a border (x = column, y = row)
RECURSIVE Shoelace(_, _)
Shoelace(c, i) ==
    IF i > Len(c) THEN 0
    ELSE LET p == c[i]
             q == c[(i % Len(c)) + 1]
         IN  (p[2] * q[1] - q[2] * p[1]) + Shoelace(c, i + 1)

\* cv2.contourArea: the area of the polygon, as a value
ContourArea(c) == Rat(Abs(Shoelace(c, 1)), 2)

\* the steps of a closed border that are diagonal
DiagonalSteps(c) ==
    Cardinality({i \in 1..Len(c) :
        LET p == c[i]
            q == c[(i % Len(c)) + 1]
        IN  p[1] # q[1] /\ p[2] # q[2]})

\* the steps of a closed border along a row or a column
StraightSteps(c) ==
    Cardinality({i \in 1..Len(c) :
        LET p == c[i]
            q == c[(i % Len(c)) + 1]
        IN  p # q /\ (p[1] = q[1] \/ p[2] = q[2])})

\* cv2.arcLength(contour, True): straight + diagonal * sqrt(2)
ArcLength(c) == Value(StraightSteps(c), DiagonalSteps(c), 1, 1)

\* the forest of contours: one record per border, with its kind, the
\* pixels of its component or hole, its border (outer borders) and the
\* index of its parent in the forest (0: none).  The parent of a hole is
\* the component around it; the parent of a component is the hole it lies
\* in, if any.
BlobParent(bs, hs, blob) ==
    LET left == <<First(blob)[1], First(blob)[2] - 1>>
    IN  IF \E k \in 1..Len(hs) : left \in hs[k]
        THEN Len(bs) + (CHOOSE k \in 1..Len(hs) : left \in hs[k])
        ELSE 0

HoleParent(bs, hole) ==
    LET left == <<First(hole)[1], First(hole)[2] - 1>>
    IN  CHOOSE k \in 1..Len(bs) : left \in bs[k]

\* the contours of the image: the outer borders first, then the hole
\* borders, each group in the order the scan meets them
Forest(px, bs, hs) ==
    [i \in 1..Len(bs) |->
        [outer |-> TRUE, pixels |-> bs[i],
         border |-> OuterBorder(px, First(bs[i])),
         parent |-> BlobParent(bs, hs, bs[i])]]
    \o
    [i \in 1..Len(hs) |->
        [outer |-> FALSE, pixels |-> hs[i], border |-> <<>>,
         parent |-> HoleParent(bs, hs[i])]]

Contours(img) == Forest(img.px, Blobs(img), Holes(img))

-----------------------------------------------------------------------------
(* extract_features of the application  (matching/feature_extractor.py) *)

FEATURE_VECTOR_SIZE == 7

\* what a call of an extractor does
Vector(v) == [kind |-> "vector", vec |-> v]

NoneResult == [kind |-> "None", vec |-> <<>>]

RaiseResult == [kind |-> "raise", vec |-> <<>>]

\* the sum of the integers f[p], p in S
RECURSIVE SumOver(_, _)
SumOver(S, col) ==
    IF S = {} THEN 0
    ELSE LET p == CHOOSE q \in S : TRUE
         IN  p[col] + SumOver(S \ {p}, col)

RECURSIVE SumValues(_)
SumValues(vs) ==
    IF vs = <<>> THEN ZeroValue ELSE AddValue(Head(vs), SumValues(Tail(vs)))

\* the contours without a parent: hierarchy[0][i][3] == -1
Roots(cs) == SelectSeq(cs, LAMBDA c : c.parent = 0)

\* (mutant) only the contours whose parent is an external contour
NumHolesDirect(cs) ==
    Cardinality({i \in 1..Len(cs) :
                    cs[i].parent # 0 /\ cs[cs[i].parent].parent = 0})

\* lines 94-96: the contours that have a parent
NumHoles(cs) == Cardinality({i \in 1..Len(cs) : cs[i].parent # 0})

\* lines 102-105: the perimeters and the areas of the external contours
TotalPerimeter(cs) ==
    SumValues([i \in 1..Len(Roots(cs)) |-> ArcLength(Roots(cs)[i].border)])

TotalArea(cs) ==
    SumValues([i \in 1..Len(Roots(cs)) |-> ContourArea(Roots(cs)[i].border)])

\* np.isnan or np.isinf
NonFinite(v) == v.den = 0

\* lines 125-126
Sanitize(vec) == [i \in DOMAIN vec |-> IF NonFinite(vec[i]) THEN ZeroValue ELSE vec[i]]

\* lines 47-53: None, not two-dimensional, or without pixels
InvalidImage(img) == img.kind # "image" \/ img.h * img.w = 0 \/ img.h = 0 \/ img.w = 0

\* (mutant) the features measured on padded_image, the array with its
\* one-pixel frame, in place of char_image
FeatureVectorPadded(img, cs) ==
    LET h == img.h + 2
        w == img.w + 2
        total_pixels == h * w
        white_pixels == Cardinality(img.px)
        aspect_ratio == Rat(w, h)
        pixel_density == IF total_pixels > 0 THEN Rat(white_pixels, total_pixels)
                         ELSE ZeroValue
        \* m10 / m00 / w and m01 / m00 / h of the raster moments
        norm_centroid_x == IF white_pixels # 0
                           THEN Rat(SumOver(img.px, 2), white_pixels * w)
                           ELSE ZeroValue
        norm_centroid_y == IF white_pixels # 0
                           THEN Rat(SumOver(img.px, 1), white_pixels * h)
                           ELSE ZeroValue
        perimeter == TotalPerimeter(cs)
        area == TotalArea(cs)
        diagonal_sq == h * h + w * w
        norm_perimeter == IF diagonal_sq > 0
                          THEN Value(perimeter.a, perimeter.b, perimeter.den, diagonal_sq)
                          ELSE ZeroValue
        norm_area == IF total_pixels > 0 THEN DivValue(area, total_pixels)
                     ELSE ZeroValue
    IN  <<aspect_ratio, pixel_density, norm_centroid_x, norm_centroid_y,
          Rat(NumHoles(cs), 1), norm_perimeter, norm_area>>

\* lines 55-122 for an image with h > 0 and w > 0 whose contours are cs
FeatureVector(img, cs) ==
    LET h == img.h
        w == img.w
        total_pixels == h * w
        white_pixels == Cardinality(img.px)
        aspect_ratio == Rat(w, h)
        pixel_density == IF total_pixels > 0 THEN Rat(white_pixels, total_pixels)
                         ELSE ZeroValue
        \* m10 / m00 / w and m01 / m00 / h of the raster moments
        norm_centroid_x == IF white_pixels # 0
                           THEN Rat(SumOver(img.px, 2), white_pixels * w)
                           ELSE ZeroValue
        norm_centroid_y == IF white_pixels # 0
                           THEN Rat(SumOver(img.px, 1), white_pixels * h)
                           ELSE ZeroValue
        perimeter == TotalPerimeter(cs)
        area == TotalArea(cs)
        diagonal_sq == h * h + w * w
        norm_perimeter == IF diagonal_sq > 0
                          THEN Value(perimeter.a, perimeter.b, perimeter.den, diagonal_sq)
                          ELSE ZeroValue
        norm_area == IF total_pixels > 0 THEN DivValue(area, total_pixels)
                     ELSE ZeroValue
    IN  <<aspect_ratio, pixel_density, norm_centroid_x, norm_centroid_y,
          Rat(NumHoles(cs), 1), norm_perimeter, norm_area>>

\* (mutant) extract_features without the guards of lines 48-53: None has no
\* ndim, and w / h divides by zero for an image without rows
ExtractFeaturesUnguarded(img) ==
    IF InvalidImage(img) THEN RaiseResult
    ELSE Vector(Sanitize(FeatureVector(img, Contours(img))))

\* (mutant) extract_features with "char_image is None" as its only guard: the
\* unpacking of shape fails for an array that is not two-dimensional, and
\* w / h or OpenCV for an array without pixels
ExtractFeaturesNoneCheckOnly(img) ==
    IF img.kind = "null" THEN Vector(Zeros(FEATURE_VECTOR_SIZE))
    ELSE IF InvalidImage(img) THEN RaiseResult
    ELSE Vector(Sanitize(FeatureVector(img, Contours(img))))

\* extract_features (feature_extractor.py 33-128)
ExtractFeatures(img) ==
    IF InvalidImage(img) THEN Vector(Zeros(FEATURE_VECTOR_SIZE))
    ELSE Vector(Sanitize(FeatureVector(img, Contours(img))))

-----------------------------------------------------------------------------
(* extract_features of the builder  (scripts/build_font_database.py) *)

\* the index, in the list findContours returns, of the first contour without
\* a parent (line 161).  findContours links every new contour in front of
\* its siblings, so the list starts with the root found last by the scan.
OuterContourIdx(cs) ==
    CHOOSE i \in 1..Len(cs) :
        /\ cs[i].parent = 0
        /\ \A j \in 1..Len(cs) : cs[j].parent = 0 => j <= i

\* cv2.boundingRect of a border: [x, y, w, h]
BoundingRect(border) ==
    LET rows == {border[i][1] : i \in 1..Len(border)}
        cols == {border[i][2] : i \in 1..Len(border)}
        y0 == CHOOSE r \in rows : \A q \in rows : r <= q
        y1 == CHOOSE r \in rows : \A q \in rows : r >= q
        x0 == CHOOSE c \in cols : \A q \in cols : c <= q
        x1 == CHOOSE c \in cols : \A q \in cols : c >= q
    IN  [x |-> x0, y |-> y0, w |-> x1 - x0 + 1, h |-> y1 - y0 + 1]

\* cv2.moments of a contour (Green's formula): a10 = 6 * m10, a01 = 6 * m01
\* up to the sign of a00 = 2 * m00
RECURSIVE PolyMoment(_, _, _)
PolyMoment(c, i, col) ==
    IF i > Len(c) THEN 0
    ELSE LET p == c[i]
             q == c[(i % Len(c)) + 1]
         IN  (p[2] * q[1] - q[2] * p[1]) * (p[col] + q[col])
             + PolyMoment(c, i + 1, col)

\* lines 155-189, for the contours cs of the image
OfflineFeatures(img, cs) ==
    IF cs = <<>> THEN NoneResult
    ELSE
    LET outer_contour_idx == OuterContourIdx(cs)
        outer_contour == cs[outer_contour_idx].border
        box == BoundingRect(outer_contour)
        roi == {p \in img.px : /\ p[1] >= box.y /\ p[1] < box.y + box.h
                               /\ p[2] >= box.x /\ p[2] < box.x + box.w}
        a00 == Shoelace(outer_contour, 1)
        a10 == PolyMoment(outer_contour, 1, 2)
        a01 == PolyMoment(outer_contour, 1, 1)
        aspect_ratio == Rat(box.w, box.h)
        pixel_density == Rat(Cardinality(roi), box.w * box.h)
        \* (m10 / m00 - x) / w with m10 / m00 = a10 / (3 * a00)
        cx == Rat(Sign(a00) * (a10 - 3 * a00 * box.x), 3 * Abs(a00) * box.w)
        cy == Rat(Sign(a00) * (a01 - 3 * a00 * box.y), 3 * Abs(a00) * box.h)
        num_holes == Cardinality({i \in 1..Len(cs) :
                                     cs[i].parent = outer_contour_idx})
    IN  IF box.h = 0 \/ box.w = 0 THEN NoneResult
        ELSE IF a00 = 0 THEN NoneResult
        ELSE Vector(<<aspect_ratio, pixel_density, cx, cy, Rat(num_holes, 1)>>)

\* extract_features (build_font_database.py 138-189)
ExtractFeaturesOffline(img) == OfflineFeatures(img, Contours(img))

-----------------------------------------------------------------------------
(* The two extract_features applied to one raster.                         *)

\* the rasters tried have at most this many rows and columns
MaxSide == 2

\* every image of at most MaxSide rows and columns
SmallImages ==
    UNION {{Image(hw[1], hw[2], px) : px \in SUBSET Cells(hw[1], hw[2])} :
              hw \in (1..MaxSide) \X (1..MaxSide)}

\* np.zeros((0, w)) and np.zeros((h, 0)): two-dimensional, size 0
EmptyImages == {Image(0, 2, {}), Image(2, 0, {}), Image(0, 0, {})}

\* larger glyphs: an "O", a "B", a ring with an island in its hole, and two
\* separate blobs
GlyphO == Image(3, 3, Cells(3, 3) \ {<<1, 1>>})

GlyphB == Image(5, 3, Cells(5, 3) \ {<<1, 1>>, <<3, 1>>})

GlyphNested == Image(5, 5, (Cells(5, 5) \ ((1..3) \X (1..3))) \cup {<<2, 2>>})

GlyphTwoBlobs == Image(2, 3, {<<0, 0>>, <<1, 0>>, <<0, 2>>, <<1, 2>>})

NamedImages == {GlyphO, GlyphB, GlyphNested, GlyphTwoBlobs}

\* the arguments of the application's extract_features
Rasters == SmallImages \cup NamedImages \cup EmptyImages
               \cup {NullRaster, Not2dRaster}

NoRaster == [kind |-> "unset", h |-> 0, w |-> 0, px |-> {}]

NotRun == [kind |-> "notrun", vec |-> <<>>]

FeatIdle ==
    /\ f_raster = NoRaster
    /\ f_online = NotRun
    /\ f_offline = NotRun

\* a raster arrives: an OCR crop, or a rendered glyph
FeatChoose(img) ==
    /\ f_raster = NoRaster
    /\ f_raster' = img
    /\ UNCHANGED <<f_online, f_offline, mvars, smvars, ovars, bvars,
                   pvars>>

\* fontsnip.matching.feature_extractor.extract_features(f_raster)
FeatOnline ==
    /\ f_raster # NoRaster
    /\ f_online = NotRun
    /\ f_online' = ExtractFeatures(f_raster)
    /\ UNCHANGED <<f_raster, f_offline, mvars, smvars, ovars, bvars,
                   pvars>>

\* build_font_database.extract_features(f_raster); main() hands it the
\* arrays render_char returns, which have rows and columns
FeatOffline ==
    /\ f_raster.kind = "image"
    /\ f_raster.h > 0 /\ f_raster.w > 0
    /\ f_offline = NotRun
    /\ f_offline' = ExtractFeaturesOffline(f_raster)
    /\ UNCHANGED <<f_raster, f_online, mvars, smvars, ovars, bvars,
                   pvars>>

-----------------------------------------------------------------------------
(* main() of scripts/build_font_database.py *)

\* get_system_fonts returns at most this many fonts
MaxBuildFonts == 2

\* the number of characters of CHARSET
CharsetLen == 2

\* the side of the square canvas
CanvasSide == 5

\* line 38, shortened to CharsetLen characters
CHARSET == [i \in 1..CharsetLen |-> i]

\* line 45, scaled down: (width, height)
CANVAS_SIZE == <<CanvasSide, CanvasSide>>

\* the font directories, and the file names a font file may have; one name
\* may occur in several directories
FontDirs == {1, 2}

FontNames == 1..MaxBuildFonts

FontFiles == [dir : FontDirs, name : FontNames]

\* the order of sorted() on paths
PathBefore(p, q) == p.dir < q.dir \/ (p.dir = q.dir /\ p.name < q.name)

\* get_system_fonts (lines 50-86): the distinct font paths, sorted
FontPaths ==
    {s \in SeqUpTo(FontFiles, MaxBuildFonts) :
        \A i, j \in 1..Len(s) : i < j => PathBefore(s[i], s[j])}

\* what Pillow draws for one character of one font: no visible glyph (an
\* empty bounding box, or getbbox fails), or the glyph in its bounding box
NoGlyph == Image(0, 0, {})

GlyphSquare == Image(2, 2, Cells(2, 2))

GlyphBar == Image(1, 3, Cells(1, 3))

GlyphBlank == Image(1, 1, {})

\* a glyph FreeType cannot load: font.getbbox (line 109) or draw.text
\* (line 125) raises OSError, which neither except clause names
GlyphBroken == [kind |-> "broken", h |-> 1, w |-> 1, px |-> {}]

\* render_char left by an exception
RaisedRaster == [kind |-> "raise", h |-> 0, w |-> 0, px |-> {}]

Glyphs == {NoGlyph, GlyphSquare, GlyphO, GlyphBar, GlyphBlank, GlyphBroken}

\* render_char (lines 89-135): None, or the glyph pasted in the centre of
\* the canvas
RenderChar(readable, glyph) ==
    IF ~readable THEN NullRaster
    ELSE IF glyph.kind = "broken" THEN RaisedRaster
    ELSE IF glyph.w <= 0 \/ glyph.h <= 0 THEN NullRaster
    ELSE LET paste_x == (CANVAS_SIZE[1] - glyph.w) \div 2
             paste_y == (CANVAS_SIZE[2] - glyph.h) \div 2
         IN  Image(CANVAS_SIZE[2], CANVAS_SIZE[1],
                   {<<p[1] + paste_y, p[2] + paste_x>> : p \in glyph.px})

\* np.mean(np.array(char_features_list), axis=0), for vectors of one length
MeanOf(list) ==
    [k \in 1..Len(list[1]) |->
        DivValue(SumValues([i \in 1..Len(list) |-> list[i][k]]), Len(list))]

\* font_database[name] = vec: a new key goes last, an old one keeps its place
DictSet(items, name, vec) ==
    IF \E i \in 1..Len(items) : items[i].name = name
    THEN [i \in 1..Len(items) |->
             IF items[i].name = name THEN [name |-> name, vec |-> vec]
             ELSE items[i]]
    ELSE Append(items, [name |-> name, vec |-> vec])

BuildIdle ==
    /\ b_pc = "start"
    /\ b_fonts = <<>>
    /\ b_readable = FALSE
    /\ b_char = 1
    /\ char_features_list = <<>>
    /\ b_database = <<>>
    /\ b_history = <<>>
    /\ out_file = "absent"

\* lines 202-203
BuildStart(font_paths) ==
    /\ b_pc = "start"
    /\ b_fonts' = font_paths
    /\ b_database' = <<>>
    /\ b_pc' = "font"
    /\ UNCHANGED <<b_readable, b_char, char_features_list, b_history,
                   out_file, mvars, smvars, ovars, fvars,
                   pvars>>

\* lines 206-207: the next font; ImageFont.truetype opens it or not, for
\* every character alike
BuildFont(readable) ==
    /\ b_pc = "font"
    /\ b_fonts # <<>>
    /\ char_features_list' = <<>>
    /\ b_readable' = readable
    /\ b_char' = 1
    /\ b_pc' = "char"
    /\ UNCHANGED <<b_fonts, b_database, b_history, out_file,
                   mvars, smvars, ovars, fvars,
                   pvars>>

\* lines 217-218
Retain(list, features) ==
    IF features # NoneResult THEN Append(list, features.vec) ELSE list

\* the canvases render_char can return
Canvases ==
    {RenderChar(TRUE, glyph) : glyph \in Glyphs} \ {NullRaster, RaisedRaster}

\* extract_features on every canvas, computed once
FeaturesOf == [glyph_img \in Canvases |-> ExtractFeaturesOffline(glyph_img)]

\* lines 211-218
Sample(list, glyph_img) ==
    IF glyph_img = NullRaster THEN list
    ELSE Retain(list, FeaturesOf[glyph_img])

\* lines 209-218: one character; an exception out of render_char is caught
\* nowhere in main, so the script ends with the fonts left and no file
BuildChar(glyph) ==
    /\ b_pc = "char"
    /\ b_char <= Len(CHARSET)
    /\ IF RenderChar(b_readable, glyph) = RaisedRaster
       THEN /\ b_pc' = "aborted"
            /\ UNCHANGED <<char_features_list, b_char>>
       ELSE /\ char_features_list' =
                   Sample(char_features_list, RenderChar(b_readable, glyph))
            /\ b_char' = b_char + 1
            /\ UNCHANGED b_pc
    /\ UNCHANGED <<b_fonts, b_readable, b_database, b_history, out_file,
                   mvars, smvars, ovars, fvars,
                   pvars>>

\* (mutant) the end of the character loop, storing a zero vector for a font
\* without samples
BuildFontDoneStoreZeros ==
    /\ b_pc = "char"
    /\ b_char > Len(CHARSET)
    /\ b_database' =
           IF char_features_list # <<>>
           THEN DictSet(b_database, Head(b_fonts).name,
                        MeanOf(char_features_list))
           ELSE DictSet(b_database, Head(b_fonts).name, Zeros(5))
    /\ b_history' = Append(b_history, [font |-> Head(b_fonts),
                                       samples |-> char_features_list])
    /\ b_fonts' = Tail(b_fonts)
    /\ b_pc' = "font"
    /\ UNCHANGED <<b_readable, b_char, char_features_list, out_file,
                   mvars, smvars, ovars, fvars,
                   pvars>>

\* lines 220-224: the end of the character loop
BuildFontDone ==
    /\ b_pc = "char"
    /\ b_char > Len(CHARSET)
    /\ b_database' =
           IF char_features_list # <<>>
           THEN DictSet(b_database, Head(b_fonts).name,
                        MeanOf(char_features_list))
           ELSE b_database
    /\ b_history' = Append(b_history, [font |-> Head(b_fonts),
                                       samples |-> char_features_list])
    /\ b_fonts' = Tail(b_fonts)
    /\ b_pc' = "font"
    /\ UNCHANGED <<b_readable, b_char, char_features_list, out_file,
                   mvars, smvars, ovars, fvars,
                   pvars>>

\* lines 226-235: after the font loop
BuildSave ==
    /\ b_pc = "font"
    /\ b_fonts = <<>>
    /\ out_file' = IF b_database = <<>> THEN out_file ELSE "written"
    /\ b_pc' = "done"
    /\ UNCHANGED <<b_fonts, b_readable, b_char, char_features_list,
                   b_database, b_history, mvars, smvars, ovars, fvars,
                   pvars>>

-----------------------------------------------------------------------------
(* The application: main.py and app_logic/state_machine.py.                *)
(* The state machine names its collaborators' members as it uses them:     *)
(* the overlay's start_capture() shows the overlay, and the signal that    *)
(* carries a finished selection (region_selected in ui/capture_overlay.py) *)
(* is the one connected to _on_image_captured.                             *)

\* the coordinates of the screen a mouse event may carry
Coords == 0..2

Points == [x : Coords, y : Coords]

Origin == [x |-> 0, y |-> 0]

\* what the file at the configured database path may be
AppDbFiles == {"missing", "corrupt", "unreadable", "empty", "ok"}

\* what process_image and find_best_matches do in one run of the worker:
\* raise, return nothing, or return characters / matches
OcrResults == {"raise", "none", "chars"}

MatchResults == {"raise", "none", "matches"}

Runs == [chars : OcrResults, matches : MatchResults]

\* no worker has run
NoRun == [ran |-> FALSE, chars |-> "none", matches |-> "none",
          signals |-> <<>>]

\* before main() has built the StateMachine
AppIdle ==
    /\ a_phase = "boot"
    /\ state = "IDLE"
    /\ sm_database = "None"
    /\ worker_thread = "None"
    /\ worker_pc = "none"
    /\ worker_run = NoRun
    /\ threads = 0
    /\ last_press = "none"
    /\ main_queue = <<>>
    /\ last_error = "none"
    /\ clipboard = "old"
    /\ results_visible = FALSE

OverlayIdle ==
    /\ overlay_visible = FALSE
    /\ is_selecting = FALSE
    /\ begin = Origin
    /\ end = Origin
    /\ emitted = 0

\* StateMachine._load_font_database (state_machine.py 127-146): what it
\* returns, or "raise" for an exception it does not catch
LoadFontDatabase(file) ==
    CASE file = "missing"    -> "None"
      [] file = "corrupt"    -> "None"
      [] file = "unreadable" -> "raise"
      [] file = "empty"      -> "empty"
      [] file = "ok"         -> "loaded"

\* the message _load_font_database emits on error_occurred
LoadError(file) ==
    CASE file = "missing" -> "db_missing"
      [] file = "corrupt" -> "db_corrupt"
      [] OTHER            -> "none"

\* "not self._font_database"
DatabaseFalsy(db) == db \in {"None", "empty"}

\* main() lines 63-70 with StateMachine.__init__ (state_machine.py 101-125):
\* an exception of the constructor ends the process; the hotkey listener is
\* started only after the constructor has returned
Construct(file) ==
    /\ a_phase = "boot"
    /\ IF LoadFontDatabase(file) = "raise"
       THEN /\ a_phase' = "exited"
            /\ UNCHANGED <<sm_database, last_error>>
       ELSE /\ a_phase' = "running"
            /\ sm_database' = LoadFontDatabase(file)
            /\ last_error' = LoadError(file)
    /\ UNCHANGED <<state, worker_thread, worker_pc, worker_run, threads,
                   last_press, main_queue, clipboard, results_visible, ovars,
                   mvars, evars>>

\* (mutant) start_capture without the check of lines 162-165
StartCaptureNoDatabaseCheck ==
    /\ a_phase = "running"
    /\ IF state # "IDLE"
       THEN /\ last_press' = "ignored"
            /\ UNCHANGED <<state, overlay_visible, last_error>>
       ELSE /\ state' = "CAPTURING"
            /\ overlay_visible' = TRUE
            /\ last_press' = "started"
            /\ UNCHANGED last_error
    /\ UNCHANGED <<a_phase, sm_database, worker_thread, worker_pc, worker_run,
                   threads, main_queue, clipboard, results_visible,
                   is_selecting, begin, end, emitted, mvars, evars>>

\* (mutant) start_capture without the check of lines 158-160
StartCaptureAnyState ==
    /\ a_phase = "running"
    /\ IF DatabaseFalsy(sm_database)
       THEN /\ last_error' = "db_not_loaded"
            /\ last_press' = "refused"
            /\ UNCHANGED <<state, overlay_visible>>
       ELSE /\ state' = "CAPTURING"
            /\ overlay_visible' = TRUE
            /\ last_press' = IF state = "IDLE" THEN "started" ELSE "ignored"
            /\ UNCHANGED last_error
    /\ UNCHANGED <<a_phase, sm_database, worker_thread, worker_pc, worker_run,
                   threads, main_queue, clipboard, results_visible,
                   is_selecting, begin, end, emitted, mvars, evars>>

\* StateMachine.start_capture (state_machine.py 154-168)
StartCapture ==
    /\ a_phase = "running"
    /\ IF state # "IDLE"
       THEN /\ last_press' = "ignored"
            /\ UNCHANGED <<state, overlay_visible, last_error>>
       ELSE IF DatabaseFalsy(sm_database)
       THEN /\ last_error' = "db_not_loaded"
            /\ last_press' = "refused"
            /\ UNCHANGED <<state, overlay_visible>>
       ELSE /\ state' = "CAPTURING"
            /\ overlay_visible' = TRUE
            /\ last_press' = "started"
            /\ UNCHANGED last_error
    /\ UNCHANGED <<a_phase, sm_database, worker_thread, worker_pc, worker_run,
                   threads, main_queue, clipboard, results_visible,
                   is_selecting, begin, end, emitted, mvars, evars>>

\* StateMachine._on_image_captured (state_machine.py 170-197), as the
\* effect on the state machine of the signal that carries the selection
OnImageCaptured ==
    IF state # "CAPTURING"
    THEN UNCHANGED <<state, worker_thread, worker_pc, worker_run, threads>>
    ELSE /\ state' = "PROCESSING"
         /\ worker_thread' = "running"
         /\ worker_pc' = "started"
         /\ worker_run' = NoRun
         /\ threads' = threads + 1

\* (mutant) run without the return of line 71: after finished.emit([]) for
\* no characters it goes on to the matching
RunSignalsNoReturn(run) ==
    IF run.chars = "raise" THEN <<"error">>
    ELSE (IF run.chars = "none" THEN <<"finished_empty">> ELSE <<>>)
         \o (IF run.matches = "raise" THEN <<"error">>
             ELSE IF run.matches = "none" THEN <<"finished_empty">>
             ELSE <<"finished_matches">>)

\* ProcessingWorker.run (state_machine.py 61-87): the signals it emits, in
\* order.  finished is connected to _on_processing_finished and to the
\* thread's quit, error to _on_processing_error alone
RunSignals(run) ==
    IF run.chars = "raise" THEN <<"error">>
    ELSE IF run.chars = "none" THEN <<"finished_empty">>
    ELSE IF run.matches = "raise" THEN <<"error">>
    ELSE IF run.matches = "none" THEN <<"finished_empty">>
    ELSE <<"finished_matches">>

\* the record of a run
RunRecord(run) ==
    [ran |-> TRUE, chars |-> run.chars, matches |-> run.matches,
     signals |-> RunSignals(run)]

\* StateMachine._return_to_idle (state_machine.py 230-245): both windows
\* closed, a running thread quit and waited for (a run under way completes,
\* and what it emits is queued behind rest, the signals still waiting), the
\* references dropped, the state IDLE
ReturnToIdle(rest, run) ==
    /\ overlay_visible' = FALSE
    /\ results_visible' = FALSE
    /\ main_queue' = IF worker_thread = "running" /\ worker_pc = "started"
                     THEN rest \o RunSignals(run)
                     ELSE rest
    /\ worker_run' = IF worker_thread = "running" /\ worker_pc = "started"
                     THEN RunRecord(run)
                     ELSE worker_run
    /\ threads' = IF worker_thread = "running" THEN threads - 1 ELSE threads
    /\ worker_thread' = "None"
    /\ worker_pc' = "none"
    /\ state' = "IDLE"

\* ProcessingWorker.run (state_machine.py 61-87), in the worker thread
WorkerRun(run) ==
    /\ worker_thread = "running"
    /\ worker_pc = "started"
    /\ worker_pc' = "done"
    /\ worker_run' = RunRecord(run)
    /\ main_queue' = main_queue \o RunSignals(run)
    /\ UNCHANGED <<a_phase, state, sm_database, worker_thread, threads,
                   last_press, last_error, clipboard, results_visible, ovars,
                   mvars, evars>>

\* (mutant) _on_processing_finished giving up the display when the copy
\* fails
OnProcessingFinishedCopyOrLeave(copied, run) ==
    /\ main_queue # <<>>
    /\ Head(main_queue) \in {"finished_empty", "finished_matches"}
    /\ IF Head(main_queue) = "finished_empty" \/ ~copied
       THEN /\ ReturnToIdle(Tail(main_queue), run)
            /\ last_error' = IF Head(main_queue) = "finished_empty"
                             THEN last_error ELSE "clipboard"
            /\ UNCHANGED clipboard
       ELSE /\ state' = "DISPLAYING_RESULTS"
            /\ clipboard' = "top"
            /\ results_visible' = TRUE
            /\ main_queue' = Tail(main_queue)
            /\ worker_thread' = IF worker_thread = "running"
                                THEN "finished" ELSE worker_thread
            /\ threads' = IF worker_thread = "running"
                          THEN threads - 1 ELSE threads
            /\ UNCHANGED <<worker_pc, worker_run, overlay_visible, last_error>>
    /\ UNCHANGED <<a_phase, sm_database, last_press, is_selecting, begin, end,
                   emitted, mvars, evars>>

\* StateMachine._on_processing_finished (state_machine.py 199-222) for the
\* head of the queue; copied says whether pyperclip.copy succeeded; the
\* thread's quit, connected after the handler, runs after it and ends the
\* thread
OnProcessingFinished(copied, run) ==
    /\ main_queue # <<>>
    /\ Head(main_queue) \in {"finished_empty", "finished_matches"}
    /\ IF Head(main_queue) = "finished_empty"
       THEN /\ ReturnToIdle(Tail(main_queue), run)
            /\ UNCHANGED <<last_error, clipboard>>
       ELSE /\ state' = "DISPLAYING_RESULTS"
            /\ clipboard' = IF copied THEN "top" ELSE clipboard
            /\ last_error' = IF copied THEN last_error ELSE "clipboard"
            /\ results_visible' = TRUE
            /\ main_queue' = Tail(main_queue)
            /\ worker_thread' = IF worker_thread = "running"
                                THEN "finished" ELSE worker_thread
            /\ threads' = IF worker_thread = "running"
                          THEN threads - 1 ELSE threads
            /\ UNCHANGED <<worker_pc, worker_run, overlay_visible>>
    /\ UNCHANGED <<a_phase, sm_database, last_press, is_selecting, begin, end,
                   emitted, mvars, evars>>

\* StateMachine._on_processing_error (state_machine.py 224-228)
OnProcessingError(run) ==
    /\ main_queue # <<>>
    /\ Head(main_queue) = "error"
    /\ last_error' = "processing"
    /\ ReturnToIdle(Tail(main_queue), run)
    /\ UNCHANGED <<a_phase, sm_database, last_press, clipboard, is_selecting,
                   begin, end, emitted, mvars, evars>>

\* the results window closes (its timer, or the user): closed is connected
\* to _return_to_idle (state_machine.py 123).  The thread that has ended was
\* handed to deleteLater (line 192) while self._worker_thread still names
\* it; once it is deleted, isRunning() (line 239) raises RuntimeError and
\* the handler is left before the state is reset
ResultsClosed(deleted, run) ==
    /\ results_visible
    /\ IF worker_thread = "finished" /\ deleted
       THEN /\ overlay_visible' = FALSE
            /\ results_visible' = FALSE
            /\ last_error' = "thread_deleted"
            /\ UNCHANGED <<state, worker_thread, worker_pc, worker_run,
                           threads, main_queue>>
       ELSE /\ ReturnToIdle(main_queue, run)
            /\ UNCHANGED last_error
    /\ UNCHANGED <<a_phase, sm_database, last_press, clipboard,
                   is_selecting, begin, end, emitted, mvars, evars>>

-----------------------------------------------------------------------------
(* CaptureOverlay  (ui/capture_overlay.py) *)

Buttons == {"left", "right"}

\* the width of QRect(begin, end).normalized() along one axis: the corners
\* of a QRect are inclusive (right - left + 1), and normalized() swaps
\* corners that are the wrong way round
NormalizedWidth(x1, x2) ==
    IF x2 < x1 THEN (x1 - 1) - (x2 + 1) + 1 ELSE x2 - x1 + 1

\* (mutant) mouseReleaseEvent without the test of line 123
AnySelection(b, e) == TRUE

\* selection_rect.width() > 0 and selection_rect.height() > 0 (line 123):
\* only end = begin - 1 gives width 0
ValidSelection(b, e) ==
    NormalizedWidth(b.x, e.x) > 0 /\ NormalizedWidth(b.y, e.y) > 0

\* mousePressEvent (capture_overlay.py 91-99)
MousePress(button, p) ==
    /\ overlay_visible
    /\ IF button = "left"
       THEN /\ is_selecting' = TRUE
            /\ begin' = p
            /\ end' = p
            /\ emitted' = 0
       ELSE UNCHANGED <<is_selecting, begin, end, emitted>>
    /\ UNCHANGED <<overlay_visible, smvars, mvars, evars>>

\* mouseMoveEvent (capture_overlay.py 101-107)
MouseMove(p) ==
    /\ overlay_visible
    /\ end' = IF is_selecting THEN p ELSE end
    /\ UNCHANGED <<overlay_visible, is_selecting, begin, emitted, smvars, mvars, evars>>

\* mouseReleaseEvent (capture_overlay.py 109-128); the emitted signal runs
\* _on_image_captured before the handler returns
MouseRelease(button) ==
    /\ overlay_visible
    /\ IF button = "left" /\ is_selecting
       THEN /\ is_selecting' = FALSE
            /\ overlay_visible' = FALSE
            /\ IF ValidSelection(begin, end)
               THEN /\ emitted' = emitted + 1
                    /\ OnImageCaptured
               ELSE UNCHANGED <<emitted, state, worker_thread, worker_pc,
                                worker_run, threads>>
       ELSE UNCHANGED <<is_selecting, overlay_visible, emitted, state,
                        worker_thread, worker_pc, worker_run, threads>>
    /\ UNCHANGED <<a_phase, sm_database, last_press, main_queue, last_error,
                   clipboard, results_visible, begin, end, mvars, evars>>

\* keyPressEvent (capture_overlay.py 130-139)
KeyEscape ==
    /\ overlay_visible
    /\ is_selecting' = FALSE
    /\ overlay_visible' = FALSE
    /\ UNCHANGED <<begin, end, emitted, smvars, mvars, evars>>

-----------------------------------------------------------------------------
(* The OCR reader  (processing/ocr_handler.py).                            *)
(* perform_ocr may be called from several threads; the steps of a call are *)
(* the reads and writes of the module-level _OCR_READER.                   *)

\* the threads that call perform_ocr
OcrThreads == {1, 2}

\* what reader.readtext does
ReadResults == {"raise", "none", "chars"}

OcrIdleFrame == [pc |-> "idle", reader |-> 0, ret |-> "none"]

\* the module just imported: _OCR_READER = None (line 23)
OcrIdle ==
    /\ ocr_reader = 0
    /\ ocr_built = 0
    /\ ocr_calls = [t \in OcrThreads |-> OcrIdleFrame]

\* perform_ocr, lines 78-83: an empty list for no image, else the call of
\* _get_ocr_reader
PerformOcr(t, valid) ==
    /\ ocr_calls[t].pc \in {"idle", "done"}
    /\ ocr_calls' = [ocr_calls EXCEPT ![t] =
           IF valid THEN [pc |-> "check", reader |-> 0, ret |-> "none"]
           ELSE [pc |-> "done", reader |-> 0, ret |-> "empty"]]
    /\ UNCHANGED <<ocr_reader, ocr_built, mvars, smvars, ovars, fvars, bvars>>

\* _get_ocr_reader, line 48: "if _OCR_READER is None"
GetReaderCheck(t) ==
    /\ ocr_calls[t].pc = "check"
    /\ ocr_calls' = [ocr_calls EXCEPT ![t].pc =
           IF ocr_reader = 0 THEN "construct" ELSE "return"]
    /\ UNCHANGED <<ocr_reader, ocr_built, mvars, smvars, ovars, fvars, bvars>>

\* _get_ocr_reader, lines 50-56: easyocr.Reader(...) and the assignment to
\* the global, or the exception, which perform_ocr turns into an empty list
\* (lines 84-86)
GetReaderConstruct(t, ok) ==
    /\ ocr_calls[t].pc = "construct"
    /\ IF ok
       THEN /\ ocr_built' = ocr_built + 1
            /\ ocr_reader' = ocr_built + 1
            /\ ocr_calls' = [ocr_calls EXCEPT ![t].pc = "return"]
       ELSE /\ ocr_calls' = [ocr_calls EXCEPT ![t].pc = "done",
                                              ![t].ret = "empty"]
            /\ UNCHANGED <<ocr_reader, ocr_built>>
    /\ UNCHANGED <<mvars, smvars, ovars, fvars, bvars>>

\* _get_ocr_reader, line 57: "return _OCR_READER"
GetReaderReturn(t) ==
    /\ ocr_calls[t].pc = "return"
    /\ ocr_calls' = [ocr_calls EXCEPT ![t].pc = "read",
                                      ![t].reader = ocr_reader]
    /\ UNCHANGED <<ocr_reader, ocr_built, mvars, smvars, ovars, fvars, bvars>>

\* perform_ocr, lines 92-144: readtext with the reader the call got
ReadText(t, result) ==
    /\ ocr_calls[t].pc = "read"
    /\ ocr_calls' = [ocr_calls EXCEPT
           ![t].pc = "done",
           ![t].ret = IF result = "chars" THEN "chars" ELSE "empty"]
    /\ UNCHANGED <<ocr_reader, ocr_built, mvars, smvars, ovars, fvars, bvars>>

-----------------------------------------------------------------------------
(* Specifications *)

InitMatch ==
    MatcherIdle /\ AppIdle /\ OverlayIdle /\ FeatIdle /\ BuildIdle /\ OcrIdle

NextMatch ==
    \/ m_phase = "new" /\ \E file \in DbFiles : MatcherInit(file)
    \/ m_phase = "ready" /\ ~m_call.made /\ \E q \in Queries, n \in TopNs : MatcherCall(q, n)

SpecMatch == InitMatch /\ [][NextMatch]_vars

InitCalls ==
    MatcherIdle /\ AppIdle /\ OverlayIdle /\ FeatIdle /\ BuildIdle /\ OcrIdle

NextCalls ==
    \/ m_phase = "new" /\ \E file \in CallFiles : MatcherInit(file)
    \/ \E t \in Callers, q \in CallQueries, n \in CallTopNs : CallBegin(t, q, n)
    \/ \E t \in Callers : CallScore(t)
    \/ \E t \in Callers : CallReturn(t)

SpecCalls == InitCalls /\ [][NextCalls]_vars

InitOcr ==
    MatcherIdle /\ AppIdle /\ OverlayIdle /\ FeatIdle /\ BuildIdle /\ OcrIdle

NextOcr ==
    \/ \E t \in OcrThreads, valid \in BOOLEAN : PerformOcr(t, valid)
    \/ \E t \in OcrThreads : GetReaderCheck(t)
    \/ \E t \in OcrThreads, ok \in BOOLEAN : GetReaderConstruct(t, ok)
    \/ \E t \in OcrThreads : GetReaderReturn(t)
    \/ \E t \in OcrThreads, result \in ReadResults : ReadText(t, result)

SpecOcr == InitOcr /\ [][NextOcr]_vars


Init ==
    MatcherIdle /\ AppIdle /\ OverlayIdle /\ FeatIdle /\ BuildIdle /\ OcrIdle

Next ==
    \/ a_phase = "boot" /\ \E file \in AppDbFiles : Construct(file)
    \/ StartCapture
    \/ \E b \in Buttons, p \in Points : MousePress(b, p)
    \/ \E p \in Points : MouseMove(p)
    \/ \E b \in Buttons : MouseRelease(b)
    \/ KeyEscape
    \/ \E run \in Runs : WorkerRun(run)
    \/ \E copied \in BOOLEAN, run \in Runs : OnProcessingFinished(copied, run)
    \/ \E run \in Runs : OnProcessingError(run)
    \/ \E deleted \in BOOLEAN, run \in Runs : ResultsClosed(deleted, run)

Spec == Init /\ [][Next]_vars

\* the event loop of app.exec() (main.py line 108) and the worker thread
\* keep running: a step that can be taken is not put off for ever
FairSpec == Spec /\ WF_vars(Next)

\* one raster through the two extract_features
InitFeat ==
    MatcherIdle /\ AppIdle /\ OverlayIdle /\ FeatIdle /\ BuildIdle /\ OcrIdle

NextFeat ==
    \/ f_raster = NoRaster /\ \E img \in Rasters : FeatChoose(img)
    \/ FeatOnline
    \/ FeatOffline

SpecFeat == InitFeat /\ [][NextFeat]_vars

\* one run of the database builder
InitBuild ==
    MatcherIdle /\ AppIdle /\ OverlayIdle /\ FeatIdle /\ BuildIdle /\ OcrIdle

NextBuild ==
    \/ b_pc = "start" /\ \E font_paths \in FontPaths : BuildStart(font_paths)
    \/ \E readable \in BOOLEAN : BuildFont(readable)
    \/ b_pc = "char" /\ \E glyph \in Glyphs : BuildChar(glyph)
    \/ BuildFontDone
    \/ BuildSave

SpecBuild == InitBuild /\ [][NextBuild]_vars

-----------------------------------------------------------------------------
(* Claims about the matcher, checked under SpecMatch *)

\* the load of __init__ failed: no file, no pickle, no dict, or an empty one
LoadFailed == db_file.kind # "dict" \/ db_file.entries = <<>>

\* the call got as far as scoring: database loaded, query usable
Scored == /\ m_call.made
          /\ ~Falsy(font_database)
          /\ m_call.query # <<>>
          /\ ~Ragged(m_call.query)

\* the entries of the database that have the target's dimensionality
Usable == SelectSeq(font_database.entries,
                    LAMBDA e : Len(e.vec) = Len(m_call.query[1]))

NonIncreasing(r) ==
    \A i \in 1..Len(r) : \A j \in 1..Len(r) :
        i < j => ~ScoreLess(r[i].score, r[j].score)

\* C1: find_best_matches returns an empty list and does not raise whenever
\* the query is empty or the database is empty or not loaded.
C1_EmptyInputsGiveEmptyResult ==
    (m_call.made /\ (m_call.query = <<>> \/ Falsy(font_database)))
        => m_ret = Returned(<<>>)

C1_Witness ==
    /\ m_call.made
    /\ db_file.kind = "dict" /\ db_file.entries = <<>>
    /\ m_call.query # <<>>
    /\ m_ret = Returned(<<>>)

\* C2 (as claimed): for every top_n the result has at most top_n pairs and
\* its scores are in non-increasing order.
C2_AtMostTopNAndSorted ==
    m_call.made =>
        /\ ~m_ret.raised
        /\ Len(m_ret.value) <= m_call.top_n
        /\ NonIncreasing(m_ret.value)

\* C2 (amended): the scores are in non-increasing order for every top_n, and
\* the result has at most top_n pairs for every top_n >= 0.
C2_SortedAndAtMostNonNegativeTopN ==
    m_call.made =>
        /\ ~m_ret.raised
        /\ NonIncreasing(m_ret.value)
        /\ m_call.top_n >= 0 => Len(m_ret.value) <= m_call.top_n

\* two usable entries, the better one stored second: the sort moved it to the
\* front and top_n = 1 cut the other off
C2_Witness ==
    /\ Scored
    /\ m_call.top_n = 1
    /\ Len(Usable) = 2
    /\ Len(m_ret.value) = 1
    /\ m_ret.value[1].name = Usable[2].name

\* C3: entries of equal similarity come out by font identifier ascending,
\* whatever their order in the database.
C3_TiesByFontIdAscending ==
    m_call.made =>
        \A i \in 1..Len(m_ret.value) : \A j \in 1..Len(m_ret.value) :
            (i < j /\ m_ret.value[i].score = m_ret.value[j].score)
                => m_ret.value[i].name < m_ret.value[j].name

\* C8: an entry of another dimensionality is skipped alone: the call does
\* not raise, no skipped entry is returned, every returned pair carries the
\* similarity of its entry, and the usable entries fill the result as far as
\* top_n allows (all of them when top_n is at least their number).
C8_MismatchSkipsOnlyThatEntry ==
    Scored =>
        /\ ~m_ret.raised
        /\ \A i \in 1..Len(m_ret.value) :
              \E k \in 1..Len(Usable) :
                 /\ Usable[k].name = m_ret.value[i].name
                 /\ m_ret.value[i].score =
                       CosineSimilarity(MeanVector(m_call.query), Usable[k].vec)
        /\ Len(m_ret.value) = Len(SliceTo(Usable, m_call.top_n))
        /\ m_call.top_n >= Len(Usable) =>
              \A k \in 1..Len(Usable) :
                 \E i \in 1..Len(m_ret.value) :
                    m_ret.value[i].name = Usable[k].name

\* an entry of another dimensionality stored first, a usable one after it,
\* and the usable one returned
C8_Witness ==
    /\ Scored
    /\ Len(font_database.entries) = 2
    /\ Len(font_database.entries[1].vec) # Len(m_call.query[1])
    /\ Len(Usable) = 1
    /\ Len(m_ret.value) = 1
    /\ m_ret.value[1].name = font_database.entries[2].name

\* the entries whose vector is the mean of the query
MeanEntries ==
    {k \in 1..Len(font_database.entries) :
        /\ Len(font_database.entries[k].vec) = Len(m_call.query[1])
        /\ \A d \in 1..Len(m_call.query[1]) :
              Scale * font_database.entries[k].vec[d]
                  = MeanVector(m_call.query)[d]}

\* u is a positive multiple of v, both non-zero and of one length
Parallel(u, v) ==
    /\ Len(u) = Len(v)
    /\ Dot(u, v) > 0
    /\ \A i, j \in 1..Len(u) : u[i] * v[j] = u[j] * v[i]

Reorderings ==
    {s \in DictItems :
        /\ Len(s) = Len(font_database.entries)
        /\ {s[i] : i \in 1..Len(s)}
               = {font_database.entries[i] :
                     i \in 1..Len(font_database.entries)}}

\* C12: a second run of find_best_matches on the same query and top_n, over
\* a database of the same content stored in any order, returns the same
\* ordered list as the first.
C12_OutputIndependentOfStorageOrder ==
    (m_call.made /\ ~Falsy(font_database)) =>
        \A s \in Reorderings :
            FindBestMatches(DictDB(s), m_call.query, m_call.top_n) = m_ret

\* the similarity of the k-th usable entry
UsableScore(k) == CosineSimilarity(MeanVector(m_call.query), Usable[k].vec)

\* the usable entries that are not in the result
LeftOut ==
    {k \in 1..Len(Usable) :
        \A i \in 1..Len(m_ret.value) : m_ret.value[i].name # Usable[k].name}

\* no entry left out has a strictly higher score than an entry returned
BestReturned ==
    \A k \in LeftOut : \A i \in 1..Len(m_ret.value) :
        ~ScoreLess(m_ret.value[i].score, UsableScore(k))

\* C13 (as claimed): the result has min(top_n, number of usable entries)
\* pairs, and no usable entry left out has a strictly higher score than an
\* entry returned.
C13_ExactlyTopN ==
    Scored =>
        /\ Len(m_ret.value) = Min(m_call.top_n, Len(Usable))
        /\ BestReturned

\* C13 (amended): for every top_n no usable entry left out has a strictly
\* higher score than an entry returned, and for top_n >= 0 the result has
\* min(top_n, number of usable entries) pairs.
C13_BestEntriesAndCountForNonNegativeTopN ==
    Scored =>
        /\ BestReturned
        /\ m_call.top_n >= 0 =>
              Len(m_ret.value) = Min(m_call.top_n, Len(Usable))

\* two usable entries of different scores and top_n = 1: the better one is
\* returned, the other left out
C13_Witness ==
    /\ Scored
    /\ m_call.top_n = 1
    /\ Len(Usable) = 2
    /\ Len(m_ret.value) = 1
    /\ LeftOut # {}
    /\ \A k \in LeftOut : ScoreLess(UsableScore(k), m_ret.value[1].score)

\* two scores are numbers, and one is below the other or they are equal
Comparable(a, b) ==
    /\ a # NanScore /\ b # NanScore
    /\ (ScoreLess(a, b) \/ ScoreLess(b, a) \/ a = b)

\* C14: an entry is scored 0 whenever its vector or the mean of the query
\* has norm 0, and any two scores returned are comparable numbers.
C14_ZeroNormScoresZero ==
    Scored =>
        /\ \A i \in 1..Len(m_ret.value) : \A k \in 1..Len(Usable) :
              (/\ Usable[k].name = m_ret.value[i].name
               /\ (\/ NormSq(Usable[k].vec) = 0
                   \/ NormSq(MeanVector(m_call.query)) = 0))
                  => m_ret.value[i].score = ZeroScore
        /\ \A i, j \in 1..Len(m_ret.value) :
              Comparable(m_ret.value[i].score, m_ret.value[j].score)

\* a zero vector stored before a vector of similarity 1: both are returned,
\* the zero vector with score 0 after the other
C14_Witness ==
    /\ Scored
    /\ Len(Usable) = 2
    /\ NormSq(Usable[1].vec) = 0
    /\ Len(m_ret.value) = 2
    /\ m_ret.value[1].score = OneScore
    /\ m_ret.value[2].name = Usable[1].name
    /\ m_ret.value[2].score = ZeroScore

\* C9: after a failed load a match request is refused with an outcome that
\* differs from the ordinary empty result (an empty list, nothing raised).
C9_LoadFailureIsDistinguishable ==
    (m_call.made /\ LoadFailed) => m_ret # Returned(<<>>)

-----------------------------------------------------------------------------
(* Claims about the application, checked under Spec *)

\* C10: loading is a barrier.  A capture under way, an open overlay, a
\* worker or a queued result exist only in the running application with a
\* loaded database; so before the load and after a failed load (None, or an
\* empty database) the state is IDLE, no overlay is open and no worker runs.
C10_LoadBarrier ==
    (\/ state # "IDLE"
     \/ overlay_visible
     \/ worker_thread # "None"
     \/ worker_pc # "none"
     \/ main_queue # <<>>)
        => (a_phase = "running" /\ sm_database = "loaded")

\* start_capture was called after a failed load and refused
C10_Witness ==
    /\ a_phase = "running"
    /\ DatabaseFalsy(sm_database)
    /\ last_error = "db_not_loaded"
    /\ state = "IDLE"
    /\ ~overlay_visible
    /\ worker_thread = "None"

-----------------------------------------------------------------------------
(* Claims about the database builder, checked under SpecBuild *)

\* C4: every entry of the database the builder writes is a vector of
\* FEATURE_VECTOR_SIZE = 7 fields.
C4_StoredVectorsHaveSevenFields ==
    out_file = "written" =>
        \A i \in 1..Len(b_database) :
            Len(b_database[i].vec) = FEATURE_VECTOR_SIZE

\* the database has an entry under this file name
HasEntry(name) == \E k \in 1..Len(b_database) : b_database[k].name = name

\* no entry of the database is a vector of zeros
NoZeroEntry ==
    \A k \in 1..Len(b_database) :
        \E d \in 1..Len(b_database[k].vec) : b_database[k].vec[d] # ZeroValue

C20_FingerprintIsMeanOfOwnSamples ==
    \A i \in 1..Len(b_history) :
        b_history[i].samples # <<>> =>
            \E k \in 1..Len(b_database) :
                /\ b_database[k].name = b_history[i].font.name
                /\ b_database[k].vec = MeanOf(b_history[i].samples)

-----------------------------------------------------------------------------
(* Claims about the feature extractors, checked under SpecFeat *)

\* C5: for one raster, the builder's extract_features and the application's
\* extract_features return the same output.
C5_OfflineEqualsOnline ==
    (f_online # NotRun /\ f_offline # NotRun) => f_offline = f_online

\* C6: for a raster without a non-zero pixel the application's
\* extract_features returns the vector of seven zeros.
C6_AllBackgroundGivesZeroVector ==
    (f_raster.kind = "image" /\ f_raster.px = {} /\ f_online # NotRun)
        => f_online = Vector(Zeros(FEATURE_VECTOR_SIZE))

\* C7: whatever the raster (None, not two-dimensional, without rows or
\* columns, or an image), the application's extract_features returns a
\* vector of exactly seven values, all of them finite.
C7_SevenFiniteValues ==
    f_online # NotRun =>
        /\ f_online.kind = "vector"
        /\ Len(f_online.vec) = FEATURE_VECTOR_SIZE
        /\ \A i \in 1..Len(f_online.vec) : ~NonFinite(f_online.vec[i])

\* an array without rows went through extract_features and came back as
\* seven values
C7_Witness ==
    /\ f_raster.kind = "image"
    /\ f_raster.h = 0
    /\ f_online.kind = "vector"
    /\ Len(f_online.vec) = FEATURE_VECTOR_SIZE

\* the application's extract_features ran on an image with rows and columns
OnlineRan == f_online # NotRun /\ ~InvalidImage(f_raster)

\* C15: hole_count, the fifth field, is the number of contours of the
\* raster's forest that have a parent, at any depth: 0 for a solid
\* rectangle, 1 for a ring, 2 for a "B".
C15_HoleCountIsNonRootContours ==
    OnlineRan =>
        /\ f_online.vec[5] =
              Rat(Cardinality({i \in 1..Len(Contours(f_raster)) :
                                  Contours(f_raster)[i].parent # 0}), 1)
        /\ f_raster.px = Cells(f_raster.h, f_raster.w)
              => f_online.vec[5] = Rat(0, 1)
        /\ f_raster = GlyphO => f_online.vec[5] = Rat(1, 1)
        /\ f_raster = GlyphB => f_online.vec[5] = Rat(2, 1)
        /\ f_raster = GlyphNested => f_online.vec[5] = Rat(2, 1)

\* the "B" went through extract_features and has two holes
C15_Witness ==
    /\ f_raster = GlyphB
    /\ f_online.kind = "vector"
    /\ f_online.vec[5] = Rat(2, 1)

\* the primary outer contour of a forest with a parentless contour: the
\* parentless contour of the largest area, the earliest in scan order of
\* those
PrimaryIdx(cs) ==
    CHOOSE i \in 1..Len(cs) :
        /\ cs[i].parent = 0
        /\ \A j \in 1..Len(cs) : cs[j].parent = 0 =>
              \/ Abs(Shoelace(cs[j].border, 1)) < Abs(Shoelace(cs[i].border, 1))
              \/ (/\ Abs(Shoelace(cs[j].border, 1))
                        = Abs(Shoelace(cs[i].border, 1))
                  /\ i <= j)

\* the non-zero pixels of the image inside a bounding box
InBox(img, box) ==
    {p \in img.px : /\ p[1] >= box.y /\ p[1] < box.y + box.h
                    /\ p[2] >= box.x /\ p[2] < box.x + box.w}

\* aspect ratio, pixel density and normalized centroid over a bounding box
BoxFeatures(img, box) ==
    LET ink == InBox(img, box)
        n == Cardinality(ink)
    IN  <<Rat(box.w, box.h),
          Rat(n, box.w * box.h),
          Rat(SumOver(ink, 2) - n * box.x, n * box.w),
          Rat(SumOver(ink, 1) - n * box.y, n * box.h)>>

\* C16: the first four fields are measured over the bounding box of the
\* primary outer contour, and a raster without a parentless contour gives
\* the zero sentinel.
C16_FeaturesOverPrimaryBoundingBox ==
    OnlineRan =>
        IF Roots(Contours(f_raster)) = <<>>
        THEN f_online = Vector(Zeros(FEATURE_VECTOR_SIZE))
        ELSE SubSeq(f_online.vec, 1, 4) =
                 BoxFeatures(f_raster,
                     BoundingRect(Contours(f_raster)
                                      [PrimaryIdx(Contours(f_raster))].border))

\* C17: a solid filled square raster gives hole_count 0, aspect_ratio 1 and
\* pixel_density 1.
C17_SolidSquare ==
    (/\ OnlineRan
     /\ f_raster.h = f_raster.w
     /\ f_raster.px = Cells(f_raster.h, f_raster.w)) =>
        /\ f_online.vec[1] = OneValue
        /\ f_online.vec[2] = OneValue
        /\ f_online.vec[5] = ZeroValue

\* the solid 2 x 2 square went through extract_features
C17_Witness ==
    /\ f_raster = Image(2, 2, Cells(2, 2))
    /\ f_online.kind = "vector"
    /\ f_online.vec[1] = OneValue
    /\ f_online.vec[2] = OneValue
    /\ f_online.vec[5] = ZeroValue

\* C18: None, an array that is not two-dimensional and an array without
\* rows or columns all give the zero sentinel, and nothing is raised.
C18_InvalidRasterGivesSentinel ==
    (/\ f_online # NotRun
     /\ (\/ f_raster.kind = "null"
         \/ f_raster.kind = "not2d"
         \/ f_raster.h = 0
         \/ f_raster.w = 0)) =>
        f_online = Vector(Zeros(FEATURE_VECTOR_SIZE))

\* None went through extract_features and came back as the sentinel
C18_Witness ==
    /\ f_raster = NullRaster
    /\ f_online = Vector(Zeros(FEATURE_VECTOR_SIZE))


\* C21: failures of one character or one font are local: the character or the
\* font is skipped and the build goes on, so the build never ends with fonts
\* left unprocessed and nothing written.
C21_FailuresAreLocal ==
    ~(b_pc = "aborted" /\ b_fonts # <<>> /\ out_file = "absent")


\* C22: once loaded the database is never changed, by any sequence or
\* interleaving of calls, and what a call returns depends on the loaded
\* database and that call's own arguments only.
C22_DatabaseImmutableCallsIndependent ==
    m_phase = "ready" =>
        /\ font_database = LoadDatabase(db_file)
        /\ \A t \in Callers :
               calls[t].pc = "done" =>
                   calls[t].ret = FindBestMatches(LoadDatabase(db_file),
                                                  calls[t].query,
                                                  calls[t].top_n)

\* one call has returned matches while another call, with another query, is
\* in the middle of its loop over the same database
C22_Witness ==
    /\ calls[1].pc = "done"
    /\ Len(calls[1].ret.value) = 2
    /\ calls[2].pc = "loop"
    /\ calls[2].idx = 2
    /\ calls[2].query # calls[1].query
    /\ calls[2].scores # <<>>


C24_HiddenOverlayLeadsToIdle ==
    (state = "CAPTURING" /\ ~overlay_visible) ~> (state = "IDLE")


C26_AtMostOneWorkerThread ==
    /\ [](/\ threads <= 1
          /\ state \in {"IDLE", "CAPTURING"} =>
                 (threads = 0 /\ worker_thread # "running"
                              /\ worker_pc # "started"))
    /\ [][threads' > threads =>
              (state = "CAPTURING" /\ state' = "PROCESSING")]_vars

\* a second session is capturing after the worker of the first has run
C26_Witness ==
    /\ state = "CAPTURING"
    /\ worker_run.ran
    /\ threads = 0
    /\ overlay_visible


\* C27: every run of the worker emits exactly one signal: finished once,
\* with the matches when characters were found and matched and with an empty
\* list otherwise, or error once when a call raised; never both and never
\* neither.
C27_ExactlyOneSignalPerRun ==
    worker_run.ran =>
        /\ Len(worker_run.signals) = 1
        /\ worker_run.signals[1] \in
               {"finished_empty", "finished_matches", "error"}
        /\ worker_run.signals[1] = "error" <=>
               \/ worker_run.chars = "raise"
               \/ worker_run.chars = "chars" /\ worker_run.matches = "raise"
        /\ worker_run.signals[1] = "finished_matches" <=>
               (worker_run.chars = "chars" /\ worker_run.matches = "matches")

\* a run that found characters and no match, its signal delivered
C27_Witness ==
    /\ worker_run.ran
    /\ worker_run.chars = "chars"
    /\ worker_run.matches = "none"
    /\ worker_run.signals = <<"finished_empty">>
    /\ state = "IDLE"


\* C28: when a finished signal with matches is handled the top name is
\* copied to the clipboard and the results are displayed; a failed copy only
\* reports an error, the results are displayed all the same and the state is
\* DISPLAYING_RESULTS.  When a finished signal with an empty list is handled
\* nothing is copied or displayed and the state is IDLE.
C28_FinishedHandling ==
    [][(main_queue # <<>> /\ main_queue' = Tail(main_queue)) =>
          /\ Head(main_queue) = "finished_matches" =>
                 /\ state' = "DISPLAYING_RESULTS"
                 /\ results_visible'
                 /\ \/ clipboard' = "top" /\ last_error' = last_error
                    \/ clipboard' = clipboard /\ last_error' = "clipboard"
          /\ Head(main_queue) = "finished_empty" =>
                 /\ state' = "IDLE"
                 /\ ~results_visible'
                 /\ clipboard' = clipboard
                 /\ last_error' = last_error]_vars

\* the copy failed and the results are on display
C28_Witness ==
    /\ state = "DISPLAYING_RESULTS"
    /\ results_visible
    /\ last_error = "clipboard"
    /\ clipboard = "old"


\* C30: region_selected is emitted only by a left-button release that ends
\* a selection in progress, at most once per press, and only for a rectangle
\* of width > 0 and height > 0; the selection changes only at a left press
\* or while selecting; Escape ends the selection and hides the overlay
\* without emitting.
C30_RegionSelectedOnlyOnValidRelease ==
    /\ [](emitted <= 1)
    /\ [][/\ emitted' > emitted =>
                 /\ MouseRelease("left")
                 /\ is_selecting /\ ~is_selecting'
                 /\ emitted' = emitted + 1
                 /\ NormalizedWidth(begin.x, end.x) > 0
                 /\ NormalizedWidth(begin.y, end.y) > 0
          /\ (begin' # begin \/ end' # end) => (is_selecting \/ is_selecting')
          /\ KeyEscape =>
                 (~is_selecting' /\ ~overlay_visible' /\ emitted' = emitted)]_vars

\* a dragged rectangle was emitted and its processing has begun
C30_Witness ==
    /\ emitted = 1
    /\ end.x > begin.x
    /\ end.y < begin.y - 1
    /\ ~overlay_visible
    /\ state = "PROCESSING"


\* C29: the OCR reader is a singleton: over any sequence or interleaving of
\* perform_ocr calls, from one thread or several, easyocr.Reader is
\* constructed successfully at most once and every call that reads uses that
\* instance.
C29_ReaderConstructedAtMostOnce ==
    /\ ocr_built <= 1
    /\ \A t \in OcrThreads : ocr_calls[t].pc = "read" => ocr_calls[t].reader = 1

=============================================================================
